---- MODULE Spec2Model ----
(***************************************************************************)
(* State-machine model of src/inventory_db.py (class InventoryManagement). *)
(*                                                                         *)
(* `products` is the committed content of the products table, i.e. what a  *)
(* freshly opened connection reads.  `tx` is the view of the connection of *)
(* the running batch operation: statements executed on its cursor change   *)
(* `tx`, and only conn.commit() copies `tx` into `products`.  A connection *)
(* that is never closed keeps its pending changes to itself; they are      *)
(* discarded when the connection object is reclaimed.  Until then a        *)
(* connection that has executed INSERT / UPDATE / DELETE holds SQLite's     *)
(* write lock, and the write statements of every other connection fail     *)
(* with "database is locked"; SELECT is not affected.                      *)
(*                                                                         *)
(* Prices are REAL in the table; the model counts them in cents.           *)
(***************************************************************************)
EXTENDS Integers, Sequences, FiniteSets, TLC

\* ---- bounds of the model ------------------------------------------------
MaxQty == 2
MaxRows == 2

\* identifiers used as arguments and in batch rows; 0 is the falsy one
Ids == {0, 1}
StoredQtys == -1..MaxQty
ArgQtys == -1..MaxQty
RowQtys == (-1..MaxQty) \ {0}

Payloads ==
  { [product_name |-> "Bolt", price |-> 50, description |-> "steel bolt"],
    [product_name |-> "Nut", price |-> 20, description |-> "zinc"] }

VARIABLES
  products,      \* committed table: id -> [product_name, quantity, price, description]
  tx,            \* table as seen through the batch operation's connection
  conn,          \* connection opened by the current / most recent operation:
                 \* "closed", "open", or "writing" (open, holding the write lock)
  locked,        \* an older connection that was never closed holds the write lock
  pc,            \* position inside a batch operation, "idle" between operations
  batch,         \* rows of the batch file read so far
  invoice_data,  \* invoice lines accumulated by process_outgoing_goods
  invoice_doc,   \* what write_invoice was given, and the total row it wrote
  file,          \* where the batch file is: "none", "inbox" or "processed"
  op,            \* name of the current / most recent public operation
  args,          \* its arguments
  exc,           \* the exception it raised, "" if none
  before,        \* committed table when it started
  ret            \* value returned by get_product, <<>> for None

vars == <<products, tx, conn, locked, pc, batch, invoice_data, invoice_doc, file,
          op, args, exc, before, ret>>

\* ---- the products table -------------------------------------------------
Record(p, q) ==
  [product_name |-> p.product_name, quantity |-> q,
   price |-> p.price, description |-> p.description]

EmptyTable == [i \in {} |-> Record(CHOOSE p \in Payloads : TRUE, 0)]

Exists(db, id) == id \in DOMAIN db

Insert(db, id, rec) == [i \in DOMAIN db \cup {id} |-> IF i = id THEN rec ELSE db[i]]

Delete(db, id) == [i \in DOMAIN db \ {id} |-> db[i]]

SetQuantity(db, id, q) ==
  IF Exists(db, id) THEN [db EXCEPT ![id].quantity = q] ELSE db

MaxOf(S) == CHOOSE m \in S : \A x \in S : x <= m

\* rowid SQLite assigns to an INSERT that names no id
NextRowid(db) == IF DOMAIN db = {} THEN 1 ELSE MaxOf(DOMAIN db) + 1

NoArgs == [id |-> 0]
NoDoc == [lines |-> <<>>, total |-> 0]

\* ---- single-record operations -------------------------------------------
LockedError == "OperationalError: database is locked"

\* some connection other than the one about to be opened holds the write lock
Blocked == locked \/ conn = "writing"

Done(name, a, e, db, c, r) ==
  /\ products' = db
  /\ tx' = db
  /\ conn' = c
  /\ locked' = IF c = conn THEN locked ELSE Blocked
  /\ op' = name
  /\ args' = a
  /\ exc' = e
  /\ before' = products
  /\ ret' = r
  /\ pc' = "idle"
  /\ batch' = <<>>
  /\ invoice_data' = <<>>
  /\ invoice_doc' = NoDoc
  /\ file' = "none"

\* `if product_id:` -- the branch that inserts under the caller's id
UsesGivenId(given, id) == given /\ id # 0

AddProductExc(db, given, id) ==
  IF UsesGivenId(given, id) /\ Exists(db, id)
  THEN "IntegrityError: UNIQUE constraint failed: products.id"
  ELSE ""

AddProductId(db, given, id) == IF UsesGivenId(given, id) THEN id ELSE NextRowid(db)

AddProduct(p, q, given, id) ==
  /\ pc = "idle"
  /\ LET e == AddProductExc(products, given, id)
         a == [product_name |-> p.product_name, quantity |-> q, price |-> p.price,
               description |-> p.description, given |-> given, id |-> id]
     IN IF Blocked
        THEN Done("add_product", a, LockedError, products, "open", <<>>)
        ELSE IF e # ""
        THEN Done("add_product", a, e, products, "writing", <<>>)
        ELSE /\ AddProductId(products, given, id) \in Ids
             /\ Done("add_product", a, "",
                     Insert(products, AddProductId(products, given, id), Record(p, q)),
                     "closed", <<>>)

AddStockExc_NoCheck(q) == ""

AddStockExc(q) ==
  IF q < 0 THEN "ValueError: Quantity to add must be non-negative." ELSE ""

AddStock(id, q) ==
  /\ pc = "idle"
  /\ LET a == [id |-> id, quantity |-> q]
     IN IF AddStockExc(q) # ""
        THEN Done("add_stock", a, AddStockExc(q), products, conn, <<>>)
        ELSE IF Blocked
        THEN Done("add_stock", a, LockedError, products, "open", <<>>)
        ELSE /\ Exists(products, id) => products[id].quantity + q \in StoredQtys
             /\ Done("add_stock", a, "",
                     IF Exists(products, id)
                     THEN SetQuantity(products, id, products[id].quantity + q)
                     ELSE products,
                     "closed", <<>>)

RemoveStockExc_NoStockCheck(db, id, q) ==
  IF q < 0 THEN "ValueError: Quantity to remove must be non-negative."
  ELSE IF ~Exists(db, id) THEN "ValueError: Product ID not found."
  ELSE ""

RemoveStockExc(db, id, q) ==
  IF q < 0 THEN "ValueError: Quantity to remove must be non-negative."
  ELSE IF ~Exists(db, id) THEN "ValueError: Product ID not found."
  ELSE IF q > db[id].quantity
       THEN "ValueError: Cannot remove more than available quantity."
       ELSE ""

\* the quantity check at line 97 precedes connect_db; the other two raise
\* after it, with no close on the way out
RemoveStockConn(e) ==
  IF e = "" THEN "closed"
  ELSE IF e = "ValueError: Quantity to remove must be non-negative." THEN conn
  ELSE "open"

RemoveStock(id, q) ==
  /\ pc = "idle"
  /\ LET a == [id |-> id, quantity |-> q]
         e == RemoveStockExc(products, id, q)
     IN IF e # ""
        THEN Done("remove_stock", a, e, products, RemoveStockConn(e), <<>>)
        ELSE IF Blocked
        THEN Done("remove_stock", a, LockedError, products, "open", <<>>)
        ELSE /\ products[id].quantity - q \in StoredQtys
             /\ Done("remove_stock", a, "",
                     SetQuantity(products, id, products[id].quantity - q),
                     RemoveStockConn(e), <<>>)

UpdateQuantity(id, q) ==
  /\ pc = "idle"
  /\ IF Blocked
     THEN Done("update_quantity", [id |-> id, quantity |-> q], LockedError,
               products, "open", <<>>)
     ELSE Done("update_quantity", [id |-> id, quantity |-> q], "",
               SetQuantity(products, id, q), "closed", <<>>)

UpdateProduct(id, p, q) ==
  /\ pc = "idle"
  /\ LET a == [id |-> id, product_name |-> p.product_name, quantity |-> q,
               price |-> p.price, description |-> p.description]
     IN IF Blocked
        THEN Done("update_product", a, LockedError, products, "open", <<>>)
        ELSE Done("update_product", a, "",
                  IF Exists(products, id)
                  THEN [products EXCEPT ![id] = Record(p, q)]
                  ELSE products,
                  "closed", <<>>)

DeleteProduct(id) ==
  /\ pc = "idle"
  /\ IF Blocked
     THEN Done("delete_product", [id |-> id], LockedError, products, "open", <<>>)
     ELSE Done("delete_product", [id |-> id], "", Delete(products, id), "closed", <<>>)

\* SELECT * ... fetchone(): the row as a tuple, None when there is none
FetchOne(db, id) ==
  IF Exists(db, id)
  THEN <<id, db[id].product_name, db[id].quantity, db[id].price, db[id].description>>
  ELSE <<>>

GetProduct(id) ==
  /\ pc = "idle"
  /\ Done("get_product", [id |-> id], "", products, "closed", FetchOne(products, id))

\* the interpreter reclaims the connection objects that were never closed;
\* their uncommitted changes are rolled back and the write lock is released
Finalize ==
  /\ pc = "idle"
  /\ conn # "closed" \/ locked
  /\ conn' = "closed"
  /\ locked' = FALSE
  /\ tx' = products
  /\ UNCHANGED <<products, pc, batch, invoice_data, invoice_doc, file,
                 op, args, exc, before, ret>>

\* ---- batch files ---------------------------------------------------------
\* One csv row.  code: CODECONTENT is present and non-empty; nf: number of
\* ", "-separated sub-fields in it; idOk / priceOk / qtyOk: the text parses
\* as int / float / int (qtyOk is FALSE when the QUANTITY column is missing).
Row(p, id, q) ==
  [code |-> TRUE, nf |-> 4, idOk |-> TRUE, id |-> id,
   product_name |-> p.product_name, priceOk |-> TRUE, price |-> p.price,
   description |-> p.description, qtyOk |-> TRUE, qty |-> q]

GoodRows == { Row(p, id, q) : p \in Payloads, id \in Ids, q \in RowQtys }

SampleRow == Row(CHOOSE p \in Payloads : p.product_name = "Bolt", 0, 1)

BadRows ==
  { [SampleRow EXCEPT !.code = FALSE],
    [SampleRow EXCEPT !.qtyOk = FALSE],
    [SampleRow EXCEPT !.idOk = FALSE],
    [SampleRow EXCEPT !.priceOk = FALSE],
    [SampleRow EXCEPT !.nf = 3] }

Rows == GoodRows \cup BadRows

\* exception raised while process_outgoing_goods handles one row, "" if none
OutgoingExc(row) ==
  IF ~row.qtyOk THEN "TypeError: int() argument"
  ELSE IF ~row.code THEN ""
  ELSE IF ~row.idOk THEN "ValueError: invalid literal for int()"
  ELSE IF row.nf < 3 THEN "IndexError: list index out of range"
  ELSE IF ~row.priceOk THEN "ValueError: could not convert string to float"
  ELSE ""

\* exception raised while process_incoming_goods handles one row, "" if none
IncomingExc(txn, row) ==
  IF ~row.code THEN ""
  ELSE IF ~row.idOk THEN "ValueError: invalid literal for int()"
  ELSE IF Exists(txn, row.id)
       THEN IF ~row.qtyOk THEN "TypeError: int() argument" ELSE ""
  ELSE IF row.nf < 2 THEN "IndexError: list index out of range"
  ELSE IF ~row.qtyOk THEN "TypeError: int() argument"
  ELSE IF row.nf < 3 THEN "IndexError: list index out of range"
  ELSE IF ~row.priceOk THEN "ValueError: could not convert string to float"
  ELSE IF row.nf < 4 THEN "IndexError: list index out of range"
  ELSE ""

OutgoingQuantity_NoFloor(old, q) == old - q

\* new_quantity = max(existing_product[2] - product_quantity, 0)
OutgoingQuantity(old, q) == IF old - q > 0 THEN old - q ELSE 0

IncomingExisting_Upsert(rec, row) ==
  [product_name |-> row.product_name, quantity |-> rec.quantity + row.qty,
   price |-> row.price, description |-> row.description]

\* UPDATE products SET quantity = ? WHERE id = ?
IncomingExisting(rec, row) == [rec EXCEPT !.quantity = rec.quantity + row.qty]

\* the row makes process_incoming_goods execute an UPDATE or an INSERT
IncomingWrites(row) == row.code

\* the row makes process_outgoing_goods execute an UPDATE
OutgoingWrites(txn, row) == row.code /\ Exists(txn, row.id)

IncomingInserted(row) ==
  [product_name |-> row.product_name, quantity |-> row.qty,
   price |-> row.price, description |-> row.description]

\* table seen by the connection after one row of process_incoming_goods
IncomingRow(txn, row) ==
  IF ~row.code THEN txn
  ELSE IF Exists(txn, row.id)
       THEN [txn EXCEPT ![row.id] = IncomingExisting(txn[row.id], row)]
       ELSE Insert(txn, row.id, IncomingInserted(row))

\* table seen by the connection after one row of process_outgoing_goods
OutgoingRow(txn, row) ==
  IF row.code /\ Exists(txn, row.id)
  THEN SetQuantity(txn, row.id, OutgoingQuantity(txn[row.id].quantity, row.qty))
  ELSE txn

Line(row) ==
  [ProductID |-> row.id, ProductName |-> row.product_name, Quantity |-> row.qty,
   UnitPrice |-> row.price, TotalPrice |-> row.qty * row.price]

MergeInvoice_AlwaysAppend(lines, row) == Append(lines, Line(row))

\* invoice_data after the "Add to invoice data" block
MergeInvoice(lines, row) ==
  IF \E i \in 1..Len(lines) : lines[i].ProductID = row.id
  THEN LET k == CHOOSE i \in 1..Len(lines) :
                  /\ lines[i].ProductID = row.id
                  /\ \A j \in 1..(i - 1) : lines[j].ProductID # row.id
       IN [lines EXCEPT ![k].Quantity = @ + row.qty,
                        ![k].TotalPrice = @ + row.qty * row.price]
  ELSE Append(lines, Line(row))

InvoiceRow(lines, row) == IF row.code THEN MergeInvoice(lines, row) ELSE lines

StoreAfterRow_Autocommit(db, txn) == txn

\* cursor.execute without conn.commit(): the committed table does not change
StoreAfterRow(db, txn) == db

QuantitiesInRange(db) == \A id \in DOMAIN db : db[id].quantity \in StoredQtys

RECURSIVE SumTotals(_)
SumTotals(lines) ==
  IF lines = <<>> THEN 0 ELSE Head(lines).TotalPrice + SumTotals(Tail(lines))

Start(name) ==
  /\ pc = "idle"
  /\ pc' = "rows"
  /\ conn' = "open"
  /\ locked' = Blocked
  /\ tx' = products
  /\ op' = name
  /\ args' = NoArgs
  /\ exc' = ""
  /\ before' = products
  /\ ret' = <<>>
  /\ batch' = <<>>
  /\ invoice_data' = <<>>
  /\ invoice_doc' = NoDoc
  /\ file' = "inbox"
  /\ UNCHANGED products

StartIncoming == Start("process_incoming_goods")

StartOutgoing == Start("process_outgoing_goods")

\* an exception leaves the operation: nothing after the raise runs, so the
\* connection is neither committed nor closed and the file is not moved
Raise(e) ==
  /\ exc' = e
  /\ pc' = "idle"
  /\ UNCHANGED <<conn, locked, file, op, args, before, ret, invoice_doc>>

IncomingReadRow(row) ==
  /\ pc = "rows"
  /\ op = "process_incoming_goods"
  /\ Len(batch) < MaxRows
  /\ batch' = Append(batch, row)
  /\ UNCHANGED invoice_data
  /\ IF IncomingExc(tx, row) # ""
     THEN /\ Raise(IncomingExc(tx, row))
          /\ UNCHANGED <<tx, products>>
     ELSE IF IncomingWrites(row) /\ locked
     THEN /\ Raise(LockedError)
          /\ UNCHANGED <<tx, products>>
     ELSE /\ QuantitiesInRange(IncomingRow(tx, row))
          /\ tx' = IncomingRow(tx, row)
          /\ products' = StoreAfterRow(products, tx')
          /\ conn' = IF IncomingWrites(row) THEN "writing" ELSE conn
          /\ UNCHANGED <<pc, locked, file, op, args, exc, before, ret, invoice_doc>>

OutgoingReadRow(row) ==
  /\ pc = "rows"
  /\ op = "process_outgoing_goods"
  /\ Len(batch) < MaxRows
  /\ batch' = Append(batch, row)
  /\ IF OutgoingExc(row) # ""
     THEN /\ Raise(OutgoingExc(row))
          /\ UNCHANGED <<tx, products, invoice_data>>
     ELSE IF OutgoingWrites(tx, row) /\ locked
     THEN /\ Raise(LockedError)
          /\ UNCHANGED <<tx, products, invoice_data>>
     ELSE /\ QuantitiesInRange(OutgoingRow(tx, row))
          /\ tx' = OutgoingRow(tx, row)
          /\ products' = StoreAfterRow(products, tx')
          /\ invoice_data' = InvoiceRow(invoice_data, row)
          /\ conn' = IF OutgoingWrites(tx, row) THEN "writing" ELSE conn
          /\ UNCHANGED <<pc, locked, file, op, args, exc, before, ret, invoice_doc>>

\* the reader is exhausted and the `with` block is left
EndOfFile ==
  /\ pc = "rows"
  /\ pc' = "move"
  /\ UNCHANGED <<products, tx, conn, locked, batch, invoice_data, invoice_doc,
                 file, op, args, exc, before, ret>>

\* shutil.move(filename, ".../Processed")
MoveFile ==
  /\ pc = "move"
  /\ file' = "processed"
  /\ pc' = "commit"
  /\ UNCHANGED <<products, tx, conn, locked, batch, invoice_data, invoice_doc,
                 op, args, exc, before, ret>>

\* shutil.move raises when the destination already holds a file of that name
MoveFileFails ==
  /\ pc = "move"
  /\ Raise("shutil.Error: Destination path already exists")
  /\ UNCHANGED <<products, tx, batch, invoice_data>>

\* conn.commit(); conn.close()
CommitAndClose ==
  /\ pc = "commit"
  /\ products' = tx
  /\ conn' = "closed"
  /\ pc' = IF op = "process_outgoing_goods" THEN "invoice" ELSE "idle"
  /\ UNCHANGED <<tx, locked, batch, invoice_data, invoice_doc, file, op, args,
                 exc, before, ret>>

\* self.write_invoice(invoice_data, filename)
WriteInvoice ==
  /\ pc = "invoice"
  /\ invoice_doc' = [lines |-> invoice_data, total |-> SumTotals(invoice_data)]
  /\ pc' = "idle"
  /\ UNCHANGED <<products, tx, conn, locked, batch, invoice_data, file, op,
                 args, exc, before, ret>>

\* ---- specifications ------------------------------------------------------
InitAt(db, l) ==
  /\ products = db
  /\ tx = db
  /\ conn = "closed"
  /\ locked = l
  /\ pc = "idle"
  /\ batch = <<>>
  /\ invoice_data = <<>>
  /\ invoice_doc = NoDoc
  /\ file = "none"
  /\ op = "create_database"
  /\ args = NoArgs
  /\ exc = ""
  /\ before = db
  /\ ret = <<>>

\* a new database file: create_database leaves an empty products table
Init == InitAt(EmptyTable, FALSE)

Records == { Record(p, q) : p \in Payloads, q \in StoredQtys }

\* the tables over Ids; the operations of Spec reach every one of them
Tables == UNION { [D -> Records] : D \in SUBSET Ids }

NonNegative(db) == \A id \in DOMAIN db : db[id].quantity >= 0

InitAny == \E db \in Tables, l \in BOOLEAN : InitAt(db, l)

InitStock == \E db \in Tables, l \in BOOLEAN : NonNegative(db) /\ InitAt(db, l)

CatalogNext ==
  \/ \E p \in Payloads, q \in ArgQtys, given \in BOOLEAN, id \in Ids :
       AddProduct(p, q, given, id)
  \/ \E id \in Ids, q \in ArgQtys : AddStock(id, q)
  \/ \E id \in Ids, q \in ArgQtys : RemoveStock(id, q)
  \/ \E id \in Ids, q \in ArgQtys : UpdateQuantity(id, q)
  \/ \E id \in Ids, p \in Payloads, q \in ArgQtys : UpdateProduct(id, p, q)
  \/ \E id \in Ids : DeleteProduct(id)
  \/ \E id \in Ids : GetProduct(id)
  \/ Finalize

BatchNext ==
  \/ StartIncoming
  \/ StartOutgoing
  \/ \E row \in Rows : IncomingReadRow(row)
  \/ \E row \in Rows : OutgoingReadRow(row)
  \/ EndOfFile
  \/ MoveFile
  \/ MoveFileFails
  \/ CommitAndClose
  \/ WriteInvoice

Next == CatalogNext \/ BatchNext

\* every public operation, from a new database
Spec == Init /\ [][Next]_vars

StockNext ==
  \/ \E id \in Ids, q \in ArgQtys : AddStock(id, q)
  \/ \E id \in Ids, q \in ArgQtys : RemoveStock(id, q)
  \/ Finalize

\* add_stock and remove_stock only, from a catalog without negative stock
SpecStock == InitStock /\ [][StockNext]_vars

\* the single-record operations, from any catalog
SpecCatalog == InitAny /\ [][CatalogNext]_vars

BatchOnlyNext == BatchNext \/ Finalize

\* the two batch operations, from any catalog
SpecBatch == InitAny /\ [][BatchOnlyNext]_vars

\* ---- what the claims speak of -------------------------------------------
RECURSIVE SumSeq(_)
SumSeq(s) == IF s = <<>> THEN 0 ELSE Head(s) + SumSeq(Tail(s))

IsRowOf(row, id) == row.code /\ row.id = id

RowsFor(rows, id) == SelectSeq(rows, LAMBDA r : IsRowOf(r, id))

QtysFor(rows, id) ==
  [i \in 1..Len(RowsFor(rows, id)) |-> RowsFor(rows, id)[i].qty]

AmountsFor(rows, id) ==
  [i \in 1..Len(RowsFor(rows, id)) |-> RowsFor(rows, id)[i].qty * RowsFor(rows, id)[i].price]

IdsIn(rows) == { rows[i].id : i \in { j \in 1..Len(rows) : rows[j].code } }

RECURSIVE Floored(_, _)
Floored(q, qs) ==
  IF qs = <<>> THEN q
  ELSE Floored(IF q - Head(qs) >= 0 THEN q - Head(qs) ELSE 0, Tail(qs))

Front(rows) == SubSeq(rows, 1, Len(rows) - 1)

RECURSIVE ApplyRows(_, _, _)
ApplyRows(name, db, rows) ==
  IF rows = <<>> THEN db
  ELSE ApplyRows(name,
                 IF name = "process_incoming_goods"
                 THEN IncomingRow(db, Head(rows)) ELSE OutgoingRow(db, Head(rows)),
                 Tail(rows))

IsBatchOp == op \in {"process_incoming_goods", "process_outgoing_goods"}

OutgoingCommitted ==
  op = "process_outgoing_goods" /\ exc = "" /\ pc \in {"invoice", "idle"}

IncomingCommitted ==
  op = "process_incoming_goods" /\ exc = "" /\ pc = "idle"

RowFailed ==
  IsBatchOp /\ exc # "" /\ exc # "shutil.Error: Destination path already exists"

\* ---- claims ---------------------------------------------------------------

\* C1: from a catalog whose quantities are all >= 0, after any sequence of
\* add_stock and remove_stock calls, accepted or rejected, every stored
\* quantity is still >= 0.
C1_StockNeverNegative == NonNegative(products)

C1_Witness ==
  /\ op = "remove_stock"
  /\ exc = ""
  /\ args.quantity > 0
  /\ products[args.id].quantity = 0

\* C2: remove_stock(id, q) on an existing product with q above its current
\* quantity raises the "cannot remove more than available" ValueError and
\* leaves every stored record as it was.
C2_RemoveTooMuchRejected ==
  (/\ op = "remove_stock"
   /\ Exists(before, args.id)
   /\ args.quantity > before[args.id].quantity)
  => /\ exc = "ValueError: Cannot remove more than available quantity."
     /\ products = before

C2_Witness ==
  /\ op = "remove_stock"
  /\ Exists(before, args.id)
  /\ before[args.id].quantity > 0
  /\ args.quantity > before[args.id].quantity
  /\ Cardinality(DOMAIN products) = 2

\* C3: a committed process_outgoing_goods batch leaves each existing product
\* with the quantity obtained by applying max(0, quantity - row quantity) row
\* after row; a product some row names ends >= 0, a product no row names is
\* unchanged, no product appears or disappears, and a catalog without
\* negative stock stays without negative stock.
C3_OutgoingFloorsAtZero ==
  OutgoingCommitted =>
    /\ DOMAIN products = DOMAIN before
    /\ \A id \in DOMAIN before :
         /\ products[id] =
              [before[id] EXCEPT !.quantity = Floored(@, QtysFor(batch, id))]
         /\ id \in IdsIn(batch) => products[id].quantity >= 0
         /\ id \notin IdsIn(batch) => products[id] = before[id]
    /\ NonNegative(before) => NonNegative(products)

C3_Witness ==
  /\ OutgoingCommitted
  /\ \E id \in DOMAIN before, other \in DOMAIN before :
       /\ other # id
       /\ Len(QtysFor(batch, id)) = 2
       /\ \A i \in 1..2 : QtysFor(batch, id)[i] > 0
       /\ before[id].quantity > 0
       /\ before[id].quantity < SumSeq(QtysFor(batch, id))
       /\ products[id].quantity = 0

\* C4: the line list process_outgoing_goods hands to write_invoice has
\* exactly one line per distinct product id of the batch file; its quantity is
\* the sum of the quantities of the rows with that id and its total price the
\* sum of row quantity x row price over those rows.
C4_InvoiceMergedPerProduct ==
  (OutgoingCommitted /\ pc = "idle") =>
    LET lines == invoice_doc.lines
    IN /\ { lines[i].ProductID : i \in 1..Len(lines) } = IdsIn(batch)
       /\ Len(lines) = Cardinality(IdsIn(batch))
       /\ \A i \in 1..Len(lines) :
            /\ lines[i].Quantity = SumSeq(QtysFor(batch, lines[i].ProductID))
            /\ lines[i].TotalPrice = SumSeq(AmountsFor(batch, lines[i].ProductID))

C4_Witness ==
  /\ OutgoingCommitted
  /\ pc = "idle"
  /\ Len(batch) = 2
  /\ batch[1].code /\ batch[2].code
  /\ batch[1].id = batch[2].id
  /\ batch[1].qty = 1 /\ batch[2].qty = 2
  /\ batch[1].price # batch[2].price
  /\ Len(invoice_doc.lines) = 1
  /\ invoice_doc.lines[1].Quantity = 3

\* C5: a committed process_incoming_goods batch adds to each product that
\* existed the quantities of the rows naming it and keeps its name, price and
\* description; an id that did not exist is inserted with the name, price and
\* description of the first row naming it and the quantities of its rows;
\* nothing else changes.
C5_IncomingAddsOrInserts ==
  IncomingCommitted =>
    /\ DOMAIN products = DOMAIN before \cup IdsIn(batch)
    /\ \A id \in DOMAIN products :
         IF Exists(before, id)
         THEN products[id] =
                [before[id] EXCEPT !.quantity = @ + SumSeq(QtysFor(batch, id))]
         ELSE LET first == Head(RowsFor(batch, id))
              IN products[id] =
                   [product_name |-> first.product_name,
                    quantity |-> SumSeq(QtysFor(batch, id)),
                    price |-> first.price,
                    description |-> first.description]

C5_Witness ==
  /\ IncomingCommitted
  /\ Len(batch) = 2
  /\ \E id \in DOMAIN before, new \in DOMAIN products \ DOMAIN before :
       /\ Len(RowsFor(batch, id)) = 1
       /\ Head(RowsFor(batch, id)).qty > 0
       /\ Head(RowsFor(batch, id)).product_name # before[id].product_name
       /\ products[id].quantity > before[id].quantity
       /\ products[new].quantity > 0

\* C6: add_product with a supplied identifier that is not in the catalog,
\* 0 included, stores the record under that identifier, so get_product(id)
\* then returns (id, name, quantity, price, description); with an identifier
\* that exists the call fails and the table is unchanged.
C6_SuppliedIdRoundTrip ==
  (op = "add_product" /\ args.given) =>
    IF Exists(before, args.id)
    THEN exc # "" /\ products = before
    ELSE /\ exc = ""
         /\ FetchOne(products, args.id) =
              <<args.id, args.product_name, args.quantity, args.price,
                args.description>>

\* C7: process_incoming_goods applies the rows, commits, then moves the file:
\* the file is never in the processed location while the batch's updates are
\* not committed.
C7_MoveOnlyAfterCommit ==
  (op = "process_incoming_goods" /\ file = "processed") =>
    (pc = "idle" /\ products = tx)

\* C8: in every reachable state every stored quantity is a non-negative
\* integer, whatever public operations ran.
C8_QuantityNatural == \A id \in DOMAIN products : products[id].quantity \in Nat

C10_ConnectionClosed == pc = "idle" => conn = "closed"
====
